---- MODULE Spec2Model ----
(***************************************************************************)
(* Model of crypto.py: the repeating-key XOR cipher (RepeatingKeyXOR),     *)
(* the Hamming distance (edit_distance), the key-size search of decrypt    *)
(* and decrypt2, the block transposition of decrypt2 and the single-byte   *)
(* XOR cracker (decrypt_single_character_xor with score).                  *)
(*                                                                         *)
(* Python values are records [type, val]: a str is the sequence of its     *)
(* code points, a bytes object the sequence of its byte values.  The       *)
(* outcome of a call is Return(v) or Raise(exception name).                *)
(***************************************************************************)
EXTENDS Integers, Sequences, FiniteSets, TLC

(***************************************************************************)
(* Bounds of the model.                                                    *)
(***************************************************************************)
MaxKeyLen == 2
MaxTextLen == 2

\* Code points used for str inputs and keys; 256 is outside the 8-bit range.
CharSample == {0, 97, 255, 256}
\* Byte values used for bytes inputs.
ByteSample == {0, 97, 255}

(***************************************************************************)
(* Python values and call outcomes.                                        *)
(***************************************************************************)
Str(s) == [type |-> "str", val |-> s]

Bytes(b) == [type |-> "bytes", val |-> b]

None == [type |-> "NoneType", val |-> <<>>]

Return(v) == [ok |-> TRUE, val |-> v, err |-> "none"]

Raise(e) == [ok |-> FALSE, val |-> None, err |-> e]

NotCalled == [ok |-> FALSE, val |-> None, err |-> "not called"]

RECURSIVE SeqsUpTo(_, _)
SeqsUpTo(S, n) ==
  IF n = 0 THEN {<<>>}
  ELSE LET shorter == SeqsUpTo(S, n - 1)
       IN shorter \cup {Append(s, x) : s \in {t \in shorter : Len(t) = n - 1}, x \in S}

(***************************************************************************)
(* The ^ operator on non-negative ints.                                    *)
(***************************************************************************)
RECURSIVE Xor(_, _)
Xor(a, b) ==
  IF a = 0 /\ b = 0 THEN 0
  ELSE (((a % 2) + (b % 2)) % 2) + 2 * Xor(a \div 2, b \div 2)

(***************************************************************************)
(* Python floats are IEEE-754 binary64 numbers.  A natural number too      *)
(* large for one machine word is kept as its sequence of limbs, least      *)
(* significant first, without leading zero limbs (<<>> is 0).              *)
(***************************************************************************)
LimbBits == 15

Base == 2^LimbBits

MantissaBits == 53

RECURSIVE BFromInt(_)
BFromInt(n) == IF n = 0 THEN <<>> ELSE <<n % Base>> \o BFromInt(n \div Base)

RECURSIVE BTrim(_)
BTrim(a) ==
  IF a = <<>> THEN <<>>
  ELSE IF a[Len(a)] = 0 THEN BTrim(SubSeq(a, 1, Len(a) - 1))
  ELSE a

BLimb(a, i) == IF i <= Len(a) THEN a[i] ELSE 0

RECURSIVE BAddC(_, _, _, _)
BAddC(a, b, i, carry) ==
  IF i > Len(a) /\ i > Len(b) THEN (IF carry = 0 THEN <<>> ELSE <<carry>>)
  ELSE LET s == BLimb(a, i) + BLimb(b, i) + carry
       IN <<s % Base>> \o BAddC(a, b, i + 1, s \div Base)

BAdd(a, b) == BAddC(a, b, 1, 0)

\* a - b for a >= b
RECURSIVE BSubC(_, _, _, _)
BSubC(a, b, i, borrow) ==
  IF i > Len(a) THEN <<>>
  ELSE LET s == a[i] - BLimb(b, i) - borrow
       IN IF s < 0 THEN <<s + Base>> \o BSubC(a, b, i + 1, 1)
          ELSE <<s>> \o BSubC(a, b, i + 1, 0)

BSub(a, b) == BTrim(BSubC(a, b, 1, 0))

RECURSIVE BCmpAt(_, _, _)
BCmpAt(a, b, i) ==
  IF i = 0 THEN 0
  ELSE IF a[i] > b[i] THEN 1
  ELSE IF a[i] < b[i] THEN -1
  ELSE BCmpAt(a, b, i - 1)

\* -1, 0 or 1 as a < b, a = b or a > b
BCmp(a, b) ==
  IF Len(a) > Len(b) THEN 1
  ELSE IF Len(a) < Len(b) THEN -1
  ELSE BCmpAt(a, b, Len(a))

RECURSIVE BMulSmallC(_, _, _, _)
BMulSmallC(a, s, i, carry) ==
  IF i > Len(a) THEN (IF carry = 0 THEN <<>> ELSE <<carry>>)
  ELSE LET p == a[i] * s + carry
       IN <<p % Base>> \o BMulSmallC(a, s, i + 1, p \div Base)

\* a * s for 0 <= s < Base
BMulSmall(a, s) == IF s = 0 THEN <<>> ELSE BMulSmallC(a, s, 1, 0)

BShiftLimbs(a, k) == IF a = <<>> THEN <<>> ELSE [i \in 1..k |-> 0] \o a

RECURSIVE BMulAt(_, _, _)
BMulAt(a, b, i) ==
  IF i > Len(b) THEN <<>>
  ELSE BAdd(BShiftLimbs(BMulSmall(a, b[i]), i - 1), BMulAt(a, b, i + 1))

BMul(a, b) == BMulAt(a, b, 1)

\* a * 2^k
BShl(a, k) == BMulSmall(BShiftLimbs(a, k \div LimbBits), 2^(k % LimbBits))

\* the quotient of a by s, 0 < s < Base, from limb i down with remainder r
RECURSIVE BDivSmallAt(_, _, _, _)
BDivSmallAt(a, s, i, r) ==
  IF i = 0 THEN <<>>
  ELSE LET cur == r * Base + a[i]
       IN BDivSmallAt(a, s, i - 1, cur % s) \o <<cur \div s>>

\* floor(a / 2^k)
BShr(a, k) ==
  LET limbs == k \div LimbBits
      rest == IF limbs >= Len(a) THEN <<>> ELSE SubSeq(a, limbs + 1, Len(a))
  IN BTrim(BDivSmallAt(rest, 2^(k % LimbBits), Len(rest), 0))

RECURSIVE IntBitLen(_)
IntBitLen(n) == IF n = 0 THEN 0 ELSE 1 + IntBitLen(n \div 2)

BBitLen(a) == IF a = <<>> THEN 0 ELSE LimbBits * (Len(a) - 1) + IntBitLen(a[Len(a)])

BIsOdd(a) == a # <<>> /\ a[1] % 2 = 1

\* The next quotient limb of long division: r < d * Base, and the top limb
\* of d, of n limbs, is at least Base / 2.  The estimate from the top limbs
\* of r is the limb or up to two more.
BDigit(r, d) ==
  LET n == Len(d)
      top == BLimb(r, n + 1) * Base + BLimb(r, n)
      est == IF top \div d[n] >= Base THEN Base - 1 ELSE top \div d[n]
      p0 == BMulSmall(d, est)
  IN IF BCmp(p0, r) <= 0 THEN est
     ELSE IF BCmp(BSub(p0, d), r) <= 0 THEN est - 1
     ELSE est - 2

\* <<remainder, quotient>> of the limbs i and up of a by d, whose top limb
\* is Base / 2 or more; the top Len(d) - 1 limbs of a hold no quotient limb
RECURSIVE BDivModFrom(_, _, _)
BDivModFrom(a, d, i) ==
  IF i > Len(a) - Len(d) + 1 THEN <<SubSeq(a, i, Len(a)), <<>>>>
  ELSE LET above == BDivModFrom(a, d, i + 1)
           r2 == BTrim(<<a[i]>> \o above[1])
           t == BDigit(r2, d)
       IN <<BSub(r2, BMulSmall(d, t)), <<t>> \o above[2]>>

\* <<quotient, remainder>> of a by d > 0; both are first scaled to bring
\* the top limb of d to Base / 2 or more
BDivMod(a, d) ==
  LET s == LimbBits - IntBitLen(d[Len(d)])
      rq == BDivModFrom(BShl(a, s), BShl(d, s), 1)
  IN <<BTrim(rq[2]), BShr(rq[1], s)>>

(***************************************************************************)
(* A float is (-1)^sgn * man * 2^exp with man = 0 or 2^52 <= man < 2^53.   *)
(* Both zeros are the one FZero: they compare equal.  The values of this   *)
(* program stay far from the overflow and subnormal ranges.                *)
(***************************************************************************)
FZero == [sgn |-> 0, man |-> <<>>, exp |-> 0]

\* (-1)^sgn * n * 2^e rounded to the nearest float, ties to even
FRound(sgn, n, e) ==
  IF n = <<>> THEN FZero
  ELSE LET len == BBitLen(n)
       IN IF len <= MantissaBits
          THEN [sgn |-> sgn, man |-> BShl(n, MantissaBits - len),
                exp |-> e - (MantissaBits - len)]
          ELSE LET sh == len - MantissaBits
                   q == BShr(n, sh)
                   rem == BSub(n, BShl(q, sh))
                   c == BCmp(rem, BShl(<<1>>, sh - 1))
                   up == c > 0 \/ (c = 0 /\ BIsOdd(q))
                   q2 == IF up THEN BAdd(q, <<1>>) ELSE q
               IN IF BBitLen(q2) > MantissaBits
                  THEN [sgn |-> sgn, man |-> BShr(q2, 1), exp |-> e + sh + 1]
                  ELSE [sgn |-> sgn, man |-> q2, exp |-> e + sh]

\* float(i) for an int i
FFromInt(i) ==
  IF i < 0 THEN FRound(1, BFromInt(-i), 0) ELSE FRound(0, BFromInt(i), 0)

FNeg(x) == IF x.man = <<>> THEN x ELSE [x EXCEPT !.sgn = 1 - x.sgn]

\* x / y for y # 0
FDiv(x, y) ==
  IF x.man = <<>> THEN FZero
  ELSE LET qr == BDivMod(BShl(x.man, MantissaBits + 2), y.man)
           sticky == IF qr[2] = <<>> THEN 0 ELSE 1
       IN FRound((x.sgn + y.sgn) % 2, BAddC(qr[1], qr[1], 1, sticky),
                 x.exp - y.exp - (MantissaBits + 3))

FMul(x, y) == FRound((x.sgn + y.sgn) % 2, BMul(x.man, y.man), x.exp + y.exp)

FAdd(x, y) ==
  IF x.man = <<>> THEN y
  ELSE IF y.man = <<>> THEN x
  ELSE LET e == IF x.exp < y.exp THEN x.exp ELSE y.exp
           a == BShl(x.man, x.exp - e)
           b == BShl(y.man, y.exp - e)
           c == BCmp(a, b)
       IN IF x.sgn = y.sgn THEN FRound(x.sgn, BAdd(a, b), e)
          ELSE IF c = 0 THEN FZero
          ELSE IF c > 0 THEN FRound(x.sgn, BSub(a, b), e)
          ELSE FRound(y.sgn, BSub(b, a), e)

FSub(x, y) == FAdd(x, FNeg(y))

FSign(x) == IF x.man = <<>> THEN 0 ELSE IF x.sgn = 1 THEN -1 ELSE 1

FMagCmp(x, y) ==
  IF x.exp > y.exp THEN 1
  ELSE IF x.exp < y.exp THEN -1
  ELSE BCmp(x.man, y.man)

\* x < y
FLess(x, y) ==
  IF FSign(x) # FSign(y) THEN FSign(x) < FSign(y)
  ELSE IF FSign(x) = 0 THEN FALSE
  ELSE IF FSign(x) = 1 THEN FMagCmp(x, y) < 0
  ELSE FMagCmp(x, y) > 0

(***************************************************************************)
(* zip(text, cycle(key)): cycle replays the key from its start each time   *)
(* it is exhausted; an empty key makes cycle, and so zip, yield nothing.   *)
(***************************************************************************)
RECURSIVE ZipCycleFrom(_, _, _, _)
ZipCycleFrom(text, key, i, pos) ==
  IF i > Len(text) \/ Len(key) = 0 THEN <<>>
  ELSE <<<<text[i], key[pos]>>>>
       \o ZipCycleFrom(text, key, i + 1, IF pos = Len(key) THEN 1 ELSE pos + 1)

ZipCycle(text, key) == ZipCycleFrom(text, key, 1, 1)

XorPairs(pairs) == [i \in 1..Len(pairs) |-> Xor(pairs[i][1], pairs[i][2])]

(***************************************************************************)
(* RepeatingKeyXOR.encrypt: ord(text_char) needs text to be a str, and     *)
(* bytes(...) needs every value in range(256).  The key is a str.          *)
(***************************************************************************)
encrypt(key, text) ==
  LET pairs == ZipCycle(text.val, key)
      vals == XorPairs(pairs)
  IN IF pairs # <<>> /\ text.type # "str" THEN Raise("TypeError")
     ELSE IF \E i \in 1..Len(vals) : vals[i] > 255 THEN Raise("ValueError")
     ELSE Return(Bytes(vals))

(***************************************************************************)
(* RepeatingKeyXOR.decrypt: encrypted_byte ^ ord(key_char) needs the       *)
(* elements of encrypted to be ints, that is encrypted to be bytes.        *)
(***************************************************************************)
decryptWrongKeyIndexMutant(key, encrypted) ==
  IF Len(encrypted.val) > 0 /\ Len(key) > 0 /\ encrypted.type # "bytes" THEN Raise("TypeError")
  ELSE IF Len(key) = 0 THEN Return(Str(<<>>))
  ELSE Return(Str([i \in 1..Len(encrypted.val) |-> Xor(encrypted.val[i], key[1])]))

decrypt(key, encrypted) ==
  LET pairs == ZipCycle(encrypted.val, key)
  IN IF pairs # <<>> /\ encrypted.type # "bytes" THEN Raise("TypeError")
     ELSE Return(Str(XorPairs(pairs)))

(***************************************************************************)
(* edit_distance: bin(byte)[2:].zfill(8) is the byte's binary digits, most *)
(* significant first, padded on the left to eight; the distance counts the *)
(* positions where the digits of the two bytes differ.                     *)
(***************************************************************************)
PyInt(n) == [type |-> "int", val |-> <<n>>]

PyFloat(x) == [type |-> "float", val |-> <<x>>]

RECURSIVE Bin(_)
Bin(n) == IF n < 2 THEN <<n>> ELSE Append(Bin(n \div 2), n % 2)

ZfillNoPadMutant(s, width) == s

Zfill(s, width) ==
  IF Len(s) >= width THEN s ELSE [i \in 1..(width - Len(s)) |-> 0] \o s

\* sum(bit1 != bit2 for bit1, bit2 in zip(binary1, binary2))
BitsDiffering(binary1, binary2) ==
  LET n == IF Len(binary1) < Len(binary2) THEN Len(binary1) ELSE Len(binary2)
  IN Cardinality({i \in 1..n : binary1[i] # binary2[i]})

RECURSIVE DistanceFrom(_, _, _)
DistanceFrom(b1, b2, i) ==
  IF i > Len(b1) THEN 0
  ELSE BitsDiffering(Zfill(Bin(b1[i]), 8), Zfill(Bin(b2[i]), 8))
       + DistanceFrom(b1, b2, i + 1)

edit_distance(b1, b2) ==
  IF b1.type # "bytes" \/ b2.type # "bytes" THEN Raise("ValueError")
  ELSE IF Len(b1.val) # Len(b2.val) THEN Raise("ValueError")
  ELSE Return(PyInt(DistanceFrom(b1.val, b2.val, 1)))

(***************************************************************************)
(* Slicing s[lo:hi] with Python's treatment of negative and out-of-range   *)
(* indices, and floor division.                                            *)
(***************************************************************************)
SliceIndex(x, n) ==
  IF x < 0 THEN (IF x + n < 0 THEN 0 ELSE x + n)
  ELSE IF x > n THEN n ELSE x

PySlice(s, lo, hi) ==
  LET a == SliceIndex(lo, Len(s))
      b == SliceIndex(hi, Len(s))
  IN IF a < b THEN SubSeq(s, a + 1, b) ELSE <<>>

\* a // b for a >= 0 and b # 0
FloorDiv(a, b) == IF b > 0 THEN a \div b ELSE (0 - a) \div (0 - b)

get_blocks(enc, ks, n_blocks) ==
  [i \in 1..n_blocks |-> [type |-> enc.type, val |-> PySlice(enc.val, (i - 1) * ks, i * ks)]]

\* permutations(range(n), r=2): the ordered pairs of distinct indices, in
\* lexicographic order
Permutations2(n) ==
  [idx \in 1..(n * (n - 1)) |->
     LET i == (idx - 1) \div (n - 1)
         jj == (idx - 1) % (n - 1)
     IN <<i, IF jj >= i THEN jj + 1 ELSE jj>>]

(***************************************************************************)
(* The body of decrypt's loop for one test_key_size: the normalised        *)
(* distance of every ordered pair of blocks, and their average.            *)
(***************************************************************************)
PairDistance(key_size_blocks, pair, tks) ==
  LET d == edit_distance(key_size_blocks[pair[1] + 1], key_size_blocks[pair[2] + 1])
  IN IF ~d.ok THEN d
     ELSE IF tks = 0 THEN Raise("ZeroDivisionError")
     ELSE Return(PyFloat(FDiv(FFromInt(d.val.val[1]), FFromInt(tks))))

\* sum(distances[:i]): the floats added from left to right, each addition
\* rounded, as sum() does in CPython before 3.12
RECURSIVE SumUpTo(_, _)
SumUpTo(distances, i) ==
  IF i = 0 THEN FZero
  ELSE FAdd(SumUpTo(distances, i - 1), distances[i].val.val[1])

AverageDistance(enc, tks, n) ==
  LET key_size_blocks == get_blocks(enc, tks, n)
      pairs == Permutations2(n)
      distances == [idx \in 1..Len(pairs) |-> PairDistance(key_size_blocks, pairs[idx], tks)]
      failed == {idx \in 1..Len(pairs) : ~distances[idx].ok}
  IN IF failed # {}
     THEN distances[CHOOSE idx \in failed : \A other \in failed : idx <= other]
     ELSE IF Len(distances) = 0 THEN Raise("ZeroDivisionError")
     ELSE Return(PyFloat(FDiv(SumUpTo(distances, Len(distances)), FFromInt(Len(distances)))))

\* distance < smallest_distance, after "smallest_distance is None or"
IsSmaller(distance, smallest) ==
  smallest.type = "NoneType" \/ FLess(distance.val[1], smallest.val[1])

(***************************************************************************)
(* score: the chi-squared statistic of a text against English letter       *)
(* frequencies.  The table holds the 26 letters and the space; its values  *)
(* are written here in units of 10^-7.                                     *)
(***************************************************************************)
LetterFrequencies ==
  <<651738, 124248, 217339, 349835, 1041442, 197881, 158610, 492888, 558094,
    9033, 50529, 331490, 202124, 564513, 596302, 137645, 8606, 497563, 515760,
    729357, 225134, 82903, 171272, 13692, 145984, 7836>>

SpaceFrequency == 1918182

\* character_frequencies.get(character, 0.0001), the float of the literal
FrequencyOf(character) ==
  IF character \in 97..122
  THEN FDiv(FFromInt(LetterFrequencies[character - 96]), FFromInt(10^7))
  ELSE IF character = 32 THEN FDiv(FFromInt(SpaceFrequency), FFromInt(10^7))
  ELSE FDiv(FFromInt(1), FFromInt(10^4))

\* str.lower() on a code point below 256
Lower(c) ==
  IF c \in 65..90 \/ (c \in 192..222 /\ c # 215) THEN c + 32 ELSE c

\* text.count(letter)
Count(txt, letter) == Cardinality({i \in 1..Len(txt) : txt[i] = letter})

\* the keys of character_counts, in the order a dict keeps them: by first
\* occurrence in the text
FirstOccurrences(txt) ==
  SelectSeq([i \in 1..Len(txt) |-> IF \E j \in 1..(i - 1) : txt[j] = txt[i] THEN -1 ELSE txt[i]],
            LAMBDA c : c >= 0)

\* (observed_count - expected_count) ** 2 / expected_count, the square
\* being the rounded product of the difference with itself
ChiSquaredTerm(observed_count, expected_count) ==
  LET diff == FSub(FFromInt(observed_count), expected_count)
  IN FDiv(FMul(diff, diff), expected_count)

\* chi_squared after the first i characters of character_counts
RECURSIVE ChiSquaredUpTo(_, _, _, _)
ChiSquaredUpTo(txt, characters, length, i) ==
  IF i = 0 THEN FZero
  ELSE LET expected_count == FMul(FrequencyOf(characters[i]), FFromInt(length))
       IN FAdd(ChiSquaredUpTo(txt, characters, length, i - 1),
               ChiSquaredTerm(Count(txt, characters[i]), expected_count))

score(txt) ==
  LET lowered == [i \in 1..Len(txt) |-> Lower(txt[i])]
      characters == FirstOccurrences(lowered)
  IN ChiSquaredUpTo(lowered, characters, Len(txt), Len(characters))

(***************************************************************************)
(* decrypt_single_character_xor.                                           *)
(***************************************************************************)
PyTuple(items) == [type |-> "tuple", val |-> items]

PyList(items) == [type |-> "list", val |-> items]

\* ''.join(chr(byte ^ key) for byte in encrypted)
DecryptedWith(enc, key) == [i \in 1..Len(enc) |-> Xor(enc[i], key)]

RECURSIVE ArgMinLastMutant(_, _, _)
ArgMinLastMutant(values, lo, hi) ==
  IF lo = hi THEN lo
  ELSE LET mid == (lo + hi) \div 2
           left == ArgMinLastMutant(values, lo, mid)
           right == ArgMinLastMutant(values, mid + 1, hi)
       IN IF FLess(values[left], values[right]) THEN left ELSE right

\* min(enumerate(values), key=lambda x: x[1])[0] over values[lo..hi]: min
\* keeps the first item none of the later ones is smaller than; computed by
\* halves, which gives the same item.
RECURSIVE ArgMinBetween(_, _, _)
ArgMinBetween(values, lo, hi) ==
  IF lo = hi THEN lo
  ELSE LET mid == (lo + hi) \div 2
           left == ArgMinBetween(values, lo, mid)
           right == ArgMinBetween(values, mid + 1, hi)
       IN IF FLess(values[right], values[left]) THEN right ELSE left

\* arg_min_index(values): the index counts from 0
arg_min_index(values) == ArgMinBetween(values, 1, Len(values)) - 1

CrackResult(enc, scores) ==
  LET key_index == arg_min_index(scores)
  IN Return(PyTuple(<<Str(<<key_index>>), Str(DecryptedWith(enc.val, key_index))>>))

decrypt_single_character_xor(enc) ==
  IF enc.type # "bytes" /\ enc.val # <<>> THEN Raise("TypeError")
  ELSE CrackResult(enc, [k \in 1..256 |-> score(DecryptedWith(enc.val, k - 1))])

(***************************************************************************)
(* decrypt2, after its loop: the split into blocks of key_size bytes and   *)
(* their transposition, with the three assertions.                         *)
(***************************************************************************)
\* zip(*blocks): as many tuples as the shortest block is long, none for no
\* blocks at all
ZipStar(blocks) ==
  IF blocks = <<>> THEN <<>>
  ELSE LET shortest == CHOOSE n \in {Len(blocks[j].val) : j \in 1..Len(blocks)} :
                         \A j \in 1..Len(blocks) : n <= Len(blocks[j].val)
       IN [i \in 1..shortest |-> Bytes([j \in 1..Len(blocks) |-> blocks[j].val[i]])]

Transpose(enc, ks) ==
  LET n_blocks == FloorDiv(Len(enc.val), ks)
      blocks == get_blocks(enc, ks, n_blocks)
      transposed_blocks == ZipStar(blocks)
  IN IF \E i \in 1..Len(blocks) : Len(blocks[i].val) # ks
     THEN Raise("AssertionError")
     ELSE IF Len(transposed_blocks) # ks THEN Raise("AssertionError")
     ELSE IF \E i \in 1..Len(transposed_blocks) : Len(transposed_blocks[i].val) # n_blocks
     THEN Raise("AssertionError")
     ELSE Return(PyList(transposed_blocks))

\* the single-character keys of the transposed blocks, joined
AssembleKey(transposed_blocks) ==
  [i \in 1..Len(transposed_blocks) |->
     decrypt_single_character_xor(transposed_blocks[i]).val.val[1].val[1]]

Decrypt2Tail(enc, ks) ==
  IF ks.type = "NoneType" THEN Raise("TypeError")
  ELSE IF ks.val[1] = 0 THEN Raise("ZeroDivisionError")
  ELSE LET t == Transpose(enc, ks.val[1])
       IN IF ~t.ok THEN t
          ELSE decrypt(AssembleKey(t.val.val), enc)

\* the body of decrypt2's loop for one test_key_size
Decrypt2Distance(enc, tks) ==
  LET bytes_1 == PySlice(enc.val, 0, tks)
      bytes_2 == PySlice(enc.val, tks, 2 * tks)
  IN IF Len(bytes_1) # Len(bytes_2) THEN Raise("AssertionError")
     ELSE IF enc.type # "bytes" /\ bytes_1 # <<>> THEN Raise("TypeError")
     ELSE LET d == edit_distance(Str(bytes_1), Str(bytes_2))
          IN IF ~d.ok THEN d
             ELSE IF tks = 0 THEN Raise("ZeroDivisionError")
             ELSE Return(PyFloat(FDiv(FFromInt(d.val.val[1]), FFromInt(tks))))

(***************************************************************************)
(* State.                                                                  *)
(***************************************************************************)
VARIABLES
  self_key,           \* RepeatingKeyXOR: self.key
  text,               \* the argument of the last encrypt call
  encrypted,          \* the outcome of the last encrypt call
  dec_arg,            \* the argument of the last decrypt call
  decrypted,          \* the outcome of the last decrypt call
  bytes1,             \* edit_distance: its arguments and its outcome
  bytes2,
  distance,
  pc,                 \* decrypt, decrypt2: where the call is
  fn,                 \* which of the two was called
  ciphertext,         \* their arguments: encrypted, min_key_size, ...
  min_key_size,
  max_key_size,
  n_key_size_blocks,
  test_key_size,      \* their local variables
  smallest_distance,
  key_size,
  blocks,             \* what decrypt prints
  ret,                \* the outcome of the call
  t_encrypted,        \* the transposition of decrypt2: encrypted, key_size
  t_key_size,
  transposed,         \* and its outcome
  c_pc,               \* decrypt_single_character_xor: where the call is
  c_encrypted,        \* its argument
  scores,             \* the scores computed so far, scores[key + 1] for key
  c_ret               \* its outcome

cipherVars == <<self_key, text, encrypted, dec_arg, decrypted>>

hammingVars == <<bytes1, bytes2, distance>>

keySizeVars == <<pc, fn, ciphertext, min_key_size, max_key_size, n_key_size_blocks,
                 test_key_size, smallest_distance, key_size, blocks, ret>>

transposeVars == <<t_encrypted, t_key_size, transposed>>

crackVars == <<c_pc, c_encrypted, scores, c_ret>>

vars == <<cipherVars, hammingVars, keySizeVars, transposeVars, crackVars>>

CipherIdle ==
  /\ text = None
  /\ encrypted = NotCalled
  /\ dec_arg = None
  /\ decrypted = NotCalled

HammingIdle ==
  /\ bytes1 = None
  /\ bytes2 = None
  /\ distance = NotCalled

KeySizeIdle ==
  /\ pc = "idle"
  /\ fn = "none"
  /\ ciphertext = None
  /\ min_key_size = 0
  /\ max_key_size = 0
  /\ n_key_size_blocks = 0
  /\ test_key_size = 0
  /\ smallest_distance = None
  /\ key_size = None
  /\ blocks = None
  /\ ret = NotCalled

TransposeIdle ==
  /\ t_encrypted = None
  /\ t_key_size = 0
  /\ transposed = NotCalled

CrackIdle ==
  /\ c_pc = "idle"
  /\ c_encrypted = None
  /\ scores = <<>>
  /\ c_ret = NotCalled

(***************************************************************************)
(* The cipher.                                                             *)
(***************************************************************************)
Keys == SeqsUpTo(CharSample, MaxKeyLen)

Texts == {Str(s) : s \in SeqsUpTo(CharSample, MaxTextLen)}
         \cup {Bytes(b) : b \in SeqsUpTo(ByteSample, MaxTextLen)}

\* RepeatingKeyXOR.__init__: a new object in place of one not yet used
CipherNew(key) ==
  /\ CipherIdle
  /\ self_key' = key
  /\ text' = None
  /\ encrypted' = NotCalled
  /\ dec_arg' = None
  /\ decrypted' = NotCalled
  /\ UNCHANGED <<hammingVars, keySizeVars, transposeVars, crackVars>>

\* The first call of encrypt on the cipher object.
CipherEncrypt(t) ==
  /\ encrypted = NotCalled
  /\ text' = t
  /\ encrypted' = encrypt(self_key, t)
  /\ UNCHANGED <<self_key, dec_arg, decrypted>>
  /\ UNCHANGED <<hammingVars, keySizeVars, transposeVars, crackVars>>

\* The first call of decrypt on the cipher object.
CipherDecrypt(e) ==
  /\ decrypted = NotCalled
  /\ dec_arg' = e
  /\ decrypted' = decrypt(self_key, e)
  /\ UNCHANGED <<self_key, text, encrypted>>
  /\ UNCHANGED <<hammingVars, keySizeVars, transposeVars, crackVars>>

\* decrypt applied to what encrypt returned.
CipherDecryptEncrypted ==
  /\ encrypted.ok
  /\ decrypted = NotCalled
  /\ dec_arg' = encrypted.val
  /\ decrypted' = decrypt(self_key, encrypted.val)
  /\ UNCHANGED <<self_key, text, encrypted>>
  /\ UNCHANGED <<hammingVars, keySizeVars, transposeVars, crackVars>>

InitCipher ==
  /\ self_key \in Keys
  /\ CipherIdle /\ HammingIdle /\ KeySizeIdle /\ TransposeIdle /\ CrackIdle

NextCipher ==
  \/ \E key \in Keys : CipherNew(key)
  \/ \E t \in Texts : CipherEncrypt(t)
  \/ \E e \in Texts : CipherDecrypt(e)
  \/ CipherDecryptEncrypted

SpecCipher == InitCipher /\ [][NextCipher]_vars

(***************************************************************************)
(* edit_distance.                                                          *)
(***************************************************************************)
MaxBufLen == 2

ThisIsATest == Bytes(<<116, 104, 105, 115, 32, 105, 115, 32, 97, 32, 116, 101, 115, 116>>)

WokkaWokka == Bytes(<<119, 111, 107, 107, 97, 32, 119, 111, 107, 107, 97, 33, 33, 33>>)

Buffers == {Bytes(b) : b \in SeqsUpTo(ByteSample, MaxBufLen)}
           \cup {Str(<<97>>), ThisIsATest, WokkaWokka}

EditDistanceCall(b1, b2) ==
  /\ bytes1' = b1
  /\ bytes2' = b2
  /\ distance' = edit_distance(b1, b2)
  /\ UNCHANGED <<cipherVars, keySizeVars, transposeVars, crackVars>>

InitHamming ==
  /\ self_key = <<>>
  /\ CipherIdle /\ HammingIdle /\ KeySizeIdle /\ TransposeIdle /\ CrackIdle

NextHamming == \E b1 \in Buffers, b2 \in Buffers : EditDistanceCall(b1, b2)

SpecHamming == InitHamming /\ [][NextHamming]_vars

(***************************************************************************)
(* decrypt and decrypt2: one step per pass of the loop over the candidate  *)
(* key sizes, then the code after the loop.                                *)
(***************************************************************************)
MaxCipherLen == 6

\* Byte values of the ciphertexts given to decrypt and decrypt2.
KeySizeBytes == {0, 1}

\* The ciphertexts of up to MaxCipherLen bytes and, to have four full
\* blocks of three bytes, those of twice MaxCipherLen that begin with zeros.
Ciphertexts ==
  {Bytes(s) : s \in SeqsUpTo(KeySizeBytes, MaxCipherLen)}
  \cup {Bytes([i \in 1..MaxCipherLen |-> 0] \o s) :
          s \in {t \in SeqsUpTo(KeySizeBytes, MaxCipherLen) : Len(t) = MaxCipherLen}}

KeySizes == -1..3

BlockCounts == {2, 4}

Call(f, enc, lo, hi, n) ==
  /\ pc = "idle"
  /\ pc' = "loop"
  /\ fn' = f
  /\ ciphertext' = enc
  /\ min_key_size' = lo
  /\ max_key_size' = hi
  /\ n_key_size_blocks' = n
  /\ test_key_size' = lo
  /\ smallest_distance' = None
  /\ key_size' = None
  /\ UNCHANGED <<blocks, ret>>
  /\ UNCHANGED <<cipherVars, hammingVars, transposeVars, crackVars>>

\* One pass of a loop: an exception ends the call, otherwise the candidate
\* replaces the best one when its distance is smaller.
LoopPass(d) ==
  /\ IF ~d.ok
     THEN /\ pc' = "error"
          /\ ret' = d
          /\ UNCHANGED <<test_key_size, smallest_distance, key_size>>
     ELSE /\ pc' = "loop"
          /\ ret' = ret
          /\ test_key_size' = test_key_size + 1
          /\ IF IsSmaller(d.val, smallest_distance)
             THEN /\ smallest_distance' = d.val
                  /\ key_size' = PyInt(test_key_size)
             ELSE UNCHANGED <<smallest_distance, key_size>>
  /\ UNCHANGED <<fn, ciphertext, min_key_size, max_key_size, n_key_size_blocks, blocks>>
  /\ UNCHANGED <<cipherVars, hammingVars, transposeVars, crackVars>>

DecryptLoop ==
  /\ pc = "loop" /\ fn = "decrypt"
  /\ test_key_size <= max_key_size
  /\ LoopPass(AverageDistance(ciphertext, test_key_size, n_key_size_blocks))

\* After the loop: n_blocks = len(encrypted) // key_size, the blocks are
\* printed and the function ends without a return statement.
DecryptSplit ==
  /\ pc = "loop" /\ fn = "decrypt"
  /\ test_key_size > max_key_size
  /\ IF key_size.type = "NoneType"
     THEN pc' = "error" /\ ret' = Raise("TypeError") /\ blocks' = blocks
     ELSE IF key_size.val[1] = 0
     THEN pc' = "error" /\ ret' = Raise("ZeroDivisionError") /\ blocks' = blocks
     ELSE /\ pc' = "done"
          /\ blocks' = PyList(get_blocks(ciphertext, key_size.val[1],
                                         FloorDiv(Len(ciphertext.val), key_size.val[1])))
          /\ ret' = Return(None)
  /\ UNCHANGED <<fn, ciphertext, min_key_size, max_key_size, n_key_size_blocks,
                 test_key_size, smallest_distance, key_size>>
  /\ UNCHANGED <<cipherVars, hammingVars, transposeVars, crackVars>>

Decrypt2Loop ==
  /\ pc = "loop" /\ fn = "decrypt2"
  /\ test_key_size <= max_key_size
  /\ LoopPass(Decrypt2Distance(ciphertext, test_key_size))

Decrypt2Finish ==
  /\ pc = "loop" /\ fn = "decrypt2"
  /\ test_key_size > max_key_size
  /\ ret' = Decrypt2Tail(ciphertext, key_size)
  /\ pc' = IF ret'.ok THEN "done" ELSE "error"
  /\ UNCHANGED <<fn, ciphertext, min_key_size, max_key_size, n_key_size_blocks,
                 test_key_size, smallest_distance, key_size, blocks>>
  /\ UNCHANGED <<cipherVars, hammingVars, transposeVars, crackVars>>

InitKeySize ==
  /\ self_key = <<>>
  /\ CipherIdle /\ HammingIdle /\ KeySizeIdle /\ TransposeIdle /\ CrackIdle

NextKeySize ==
  \/ \E enc \in Ciphertexts, lo \in KeySizes, hi \in KeySizes, n \in BlockCounts :
       Call("decrypt", enc, lo, hi, n)
  \/ \E enc \in Ciphertexts, lo \in KeySizes, hi \in KeySizes :
       Call("decrypt2", enc, lo, hi, 2)
  \/ DecryptLoop
  \/ DecryptSplit
  \/ Decrypt2Loop
  \/ Decrypt2Finish

SpecKeySize == InitKeySize /\ [][NextKeySize]_vars

(***************************************************************************)
(* The transposition of decrypt2, on its own.                              *)
(***************************************************************************)
MaxTransposeLen == 4

MaxTransposeKeySize == 3

TransposeCall(enc, ks) ==
  /\ t_encrypted' = enc
  /\ t_key_size' = ks
  /\ transposed' = Transpose(enc, ks)
  /\ UNCHANGED <<cipherVars, hammingVars, keySizeVars, crackVars>>

InitTranspose ==
  /\ self_key = <<>>
  /\ CipherIdle /\ HammingIdle /\ KeySizeIdle /\ TransposeIdle /\ CrackIdle

NextTranspose ==
  \E b \in SeqsUpTo(ByteSample, MaxTransposeLen), ks \in 1..MaxTransposeKeySize :
    TransposeCall(Bytes(b), ks)

SpecTranspose == InitTranspose /\ [][NextTranspose]_vars

(***************************************************************************)
(* decrypt_single_character_xor: one step per key of range(256), then the  *)
(* choice of the key.                                                      *)
(***************************************************************************)
MaxCrackLen == 2

CrackBytes == {0, 32}

CrackCall(enc) ==
  /\ c_pc = "idle"
  /\ c_pc' = "scoring"
  /\ c_encrypted' = enc
  /\ scores' = <<>>
  /\ c_ret' = NotCalled
  /\ UNCHANGED <<cipherVars, hammingVars, keySizeVars, transposeVars>>

\* the candidate of the next key and its score
CrackScore ==
  /\ c_pc = "scoring"
  /\ Len(scores) < 256
  /\ scores' = Append(scores, score(DecryptedWith(c_encrypted.val, Len(scores))))
  /\ UNCHANGED <<c_pc, c_encrypted, c_ret>>
  /\ UNCHANGED <<cipherVars, hammingVars, keySizeVars, transposeVars>>

CrackFinish ==
  /\ c_pc = "scoring"
  /\ Len(scores) = 256
  /\ c_pc' = "done"
  /\ c_ret' = CrackResult(c_encrypted, scores)
  /\ UNCHANGED <<c_encrypted, scores>>
  /\ UNCHANGED <<cipherVars, hammingVars, keySizeVars, transposeVars>>

InitCrack ==
  /\ self_key = <<>>
  /\ CipherIdle /\ HammingIdle /\ KeySizeIdle /\ TransposeIdle /\ CrackIdle

NextCrack ==
  \/ \E b \in SeqsUpTo(CrackBytes, MaxCrackLen) : CrackCall(Bytes(b))
  \/ CrackScore
  \/ CrackFinish

SpecCrack == InitCrack /\ [][NextCrack]_vars

(***************************************************************************)
(* Properties of the cipher, checked under SpecCipher.                     *)
(***************************************************************************)
EightBit(s) == \A i \in 1..Len(s) : s[i] \in 0..255

\* What the key is cycled over: the value at position i of s XOR the key
\* value at position i mod len(key), positions counted from 0.
CycledXor(s, key) == [i \in 1..Len(s) |-> Xor(s[i], key[((i - 1) % Len(key)) + 1])]

\* encrypt was called with a str of 8-bit code points under a non-empty key
\* of 8-bit code points.
PlaintextEncrypted ==
  /\ encrypted # NotCalled
  /\ text.type = "str" /\ EightBit(text.val)
  /\ Len(self_key) >= 1 /\ EightBit(self_key)

\* C1: with a non-empty key, encrypt of a plaintext of 8-bit values
\* succeeds, and decrypt of what it returned succeeds and returns exactly
\* the plaintext: same length, same value at every position.
RoundTrip ==
  PlaintextEncrypted =>
    /\ encrypted.ok
    /\ (decrypted # NotCalled /\ dec_arg = encrypted.val) => decrypted = Return(text)

\* A round trip in which the key was cycled and changed every value.
RoundTripWitness ==
  /\ PlaintextEncrypted
  /\ decrypted # NotCalled /\ dec_arg = encrypted.val
  /\ Len(text.val) > Len(self_key)
  /\ \A i \in 1..Len(text.val) : encrypted.val.val[i] # text.val[i]
  /\ decrypted = Return(text)

\* C2: with a zero-length key every call of encrypt and of decrypt ends in
\* an error and returns no buffer.
EmptyKeyFails ==
  self_key = <<>> =>
    /\ encrypted # NotCalled => ~encrypted.ok
    /\ decrypted # NotCalled => ~decrypted.ok

\* C3: for a sequence X of 8-bit values and a non-empty key, encrypt of X
\* and decrypt of X both succeed and both give X XORed with the cycled key.
EncryptIsDecrypt ==
  (/\ encrypted # NotCalled /\ decrypted # NotCalled
   /\ dec_arg = text /\ EightBit(text.val)
   /\ Len(self_key) >= 1 /\ EightBit(self_key)) =>
    /\ encrypted.ok /\ decrypted.ok
    /\ encrypted.val.val = CycledXor(text.val, self_key)
    /\ decrypted.val.val = CycledXor(text.val, self_key)

(***************************************************************************)
(* Properties of edit_distance, checked under SpecHamming.                 *)
(***************************************************************************)
\* the number of set bits of n
RECURSIVE PopCount(_)
PopCount(n) == IF n = 0 THEN 0 ELSE (n % 2) + PopCount(n \div 2)

\* the sum over the positions i and up of the set bits of a[i] XOR b[i]
RECURSIVE HammingFrom(_, _, _)
HammingFrom(a, b, i) ==
  IF i > Len(a) THEN 0 ELSE PopCount(Xor(a[i], b[i])) + HammingFrom(a, b, i + 1)

EqualLengthBuffers ==
  /\ distance # NotCalled
  /\ bytes1.type = "bytes" /\ bytes2.type = "bytes"
  /\ Len(bytes1.val) = Len(bytes2.val)

\* C8: for byte buffers of equal length edit_distance returns the sum over
\* the positions of the number of set bits of a[i] XOR b[i]; that is 0 for
\* equal buffers and 37 for "this is a test" and "wokka wokka!!!".
HammingReference ==
  EqualLengthBuffers =>
    /\ distance = Return(PyInt(HammingFrom(bytes1.val, bytes2.val, 1)))
    /\ bytes1 = bytes2 => distance = Return(PyInt(0))
    /\ (bytes1 = ThisIsATest /\ bytes2 = WokkaWokka) => distance = Return(PyInt(37))

\* The known answer has been computed.
HammingReferenceWitness ==
  /\ EqualLengthBuffers
  /\ bytes1 = ThisIsATest /\ bytes2 = WokkaWokka
  /\ distance = Return(PyInt(37))

CrackDone == c_pc = "done" /\ c_encrypted.val # <<>>

\* the code point of the returned key
ReturnedKey == c_ret.val.val[1].val[1]

FSame(x, y) == ~FLess(x, y) /\ ~FLess(y, x)

\* C10: for a non-empty input all 256 keys are scored, no candidate scores
\* lower than that of the returned key, no lower key scores the same, and
\* the returned text is the input with every byte XORed with that key.
CrackerSelection ==
  CrackDone =>
    /\ c_ret.ok
    /\ Len(scores) = 256
    /\ \A k \in 0..255 : scores[k + 1] = score(DecryptedWith(c_encrypted.val, k))
    /\ ReturnedKey \in 0..255
    /\ \A k \in 0..255 : ~FLess(scores[k + 1], scores[ReturnedKey + 1])
    /\ \A k \in 0..255 : FSame(scores[k + 1], scores[ReturnedKey + 1]) => k >= ReturnedKey
    /\ c_ret.val.val[2] =
         Str([i \in 1..Len(c_encrypted.val) |-> Xor(c_encrypted.val[i], ReturnedKey)])

\* A finished call in which a second key shares the minimal score and the
\* returned key changed the text.
CrackerSelectionWitness ==
  /\ CrackDone
  /\ c_ret.ok
  /\ \E k \in 0..255 : k # ReturnedKey /\ FSame(scores[k + 1], scores[ReturnedKey + 1])
  /\ c_ret.val.val[2].val # c_encrypted.val

(***************************************************************************)
(* Properties of decrypt and decrypt2, checked under SpecKeySize.          *)
(***************************************************************************)
WellFormedRange == 1 <= min_key_size /\ min_key_size <= max_key_size

\* C4: a run of decrypt over a well-formed range on a ciphertext shorter
\* than 2 * k for some candidate k, the empty ciphertext included, never
\* completes normally.
InsufficientDataFails ==
  (/\ fn = "decrypt" /\ WellFormedRange
   /\ \E k \in min_key_size..max_key_size : Len(ciphertext.val) < 2 * k) =>
    pc # "done"

\* C5: a run of decrypt or decrypt2 with min_key_size > max_key_size, or
\* with either of them <= 0, never completes normally.
InvalidRangeFails ==
  (/\ pc # "idle"
   /\ (min_key_size > max_key_size \/ min_key_size <= 0 \/ max_key_size <= 0)) =>
    pc # "done"

\* C6: a run that completes normally returns the key with the plaintext:
\* the key has key_size values, the plaintext is as long as the ciphertext
\* and is the ciphertext XORed with the cycled key.
ReturnsKeyAndPlaintext ==
  (pc = "done" /\ WellFormedRange) =>
    /\ ret.ok
    /\ ret.val.type = "tuple"
    /\ Len(ret.val.val) = 2
    /\ Len(ret.val.val[1].val) = key_size.val[1]
    /\ Len(ret.val.val[2].val) = Len(ciphertext.val)
    /\ ret.val.val[2].val = CycledXor(ciphertext.val, ret.val.val[1].val)

\* block i, counted from 0, of the blocks of k bytes of s
FullBlock(s, k, i) == SubSeq(s, i * k + 1, (i + 1) * k)

\* the Hamming distances of the ordered pairs of distinct blocks among the
\* first n blocks of k bytes, summed from pair number idx on
RECURSIVE PairSumFrom(_, _, _, _)
PairSumFrom(s, k, n, idx) ==
  IF idx > n * n THEN 0
  ELSE LET i == (idx - 1) \div n
           j == (idx - 1) % n
       IN (IF i = j THEN 0 ELSE HammingFrom(FullBlock(s, k, i), FullBlock(s, k, j), 1))
          + PairSumFrom(s, k, n, idx + 1)

\* The average over the pairs of distance / k is PairSum / (k * n * (n - 1));
\* for one n the averages of two sizes compare as their cross products.
AverageLess(s, n, k1, k2) == PairSumFrom(s, k1, n, 1) * k2 < PairSumFrom(s, k2, n, 1) * k1

AllBlocksFull ==
  /\ fn = "decrypt" /\ WellFormedRange
  /\ n_key_size_blocks >= 2
  /\ Len(ciphertext.val) >= n_key_size_blocks * max_key_size

\* C9: when every candidate has all its blocks full, the key size decrypt
\* selects is a candidate whose average normalised distance over the
\* ordered pairs of distinct blocks no candidate undercuts, and the
\* smallest of the candidates with that average.
KeySizeSelection ==
  (pc = "done" /\ AllBlocksFull) =>
    /\ key_size.type = "int"
    /\ key_size.val[1] \in min_key_size..max_key_size
    /\ \A k \in min_key_size..max_key_size :
         /\ ~AverageLess(ciphertext.val, n_key_size_blocks, k, key_size.val[1])
         /\ ~AverageLess(ciphertext.val, n_key_size_blocks, key_size.val[1], k)
              => k >= key_size.val[1]

====
